---- MODULE Spec2Model ----
(***************************************************************************)
(* A model of sf-log: the record mapper (types.ts), the backend            *)
(* provisioner (sf.ts, setup.ts) and the Logger facade (logger.ts).        *)
(*                                                                         *)
(* A JavaScript string is a sequence of one-character strings, so that     *)
(* slicing, concatenation and containment are computed on characters.      *)
(* A JavaScript object is a function from its own keys to their values;    *)
(* the value undefined is the constant Undefined.                          *)
(***************************************************************************)
EXTENDS Integers, Sequences, FiniteSets, TLC

VARIABLES
  \* ---- record mapper pipeline (types.ts) ----
  mPc,        \* "in" | "sf" | "row" | "out"
  mIn,        \* the BaseLog given to toSfLog
  mSf,        \* toSfLog's result
  mRow,       \* the row the backend made of it
  mOut,       \* fromSfLog's result
  \* ---- Logger facade (logger.ts) and the Log__c table ----
  logger,     \* the Logger instance: its defaults and its echo flag
  pc,         \* per caller: position of its current call
  call,       \* per caller: the method called and its arguments
  local,      \* per caller: error()'s locals message, stack, cause, iters
  inflight,   \* per caller: the request handed to the connection
  attempts,   \* per caller: inserts issued by the current call
  result,     \* per caller: what the current call returned
  todo,       \* per caller: calls it may still start
  store,      \* rows of Log__c, in insertion order
  clock,      \* the backend's creation time
  console,    \* number of records echoed to the console
  \* ---- backend provisioner (setup.ts, sf.ts) and the org's metadata ----
  spc,        \* position of the provisioning client
  objExists,  \* Log__c exists in the org
  objFields,  \* custom fields of Log__c
  permSet,    \* permission set 'Log' exists
  assigned,   \* number of assignments of 'Log' to the current identity
  run,        \* bookkeeping of the current setup()/assign call
  nruns,      \* calls started by the provisioning client
  nenv,       \* changes made to the org by others
  okBackend   \* the org's state when setup() last returned

mapperVars == <<mPc, mIn, mSf, mRow, mOut>>
loggerVars == <<logger, pc, call, local, inflight, attempts, result, todo, store, clock, console>>
setupVars == <<spc, objExists, objFields, permSet, assigned, run, nruns, nenv, okBackend>>
vars == <<mapperVars, loggerVars, setupVars>>

----------------------------------------------------------------------------
\* Strings and objects
\*
\* A string is kept run-length encoded: a sequence of runs [ch, n] (n >= 1
\* copies of the character ch), adjacent runs having different characters, so
\* every string has exactly one encoding and a stack of 32768 characters is a
\* handful of runs. Length, slice and concatenation are those of the
\* character sequence.

Undefined == <<[ch |-> "#undefined", n |-> 0]>>

Min(a, b) == IF a < b THEN a ELSE b

\* a + b for strings
Concat(a, b) ==
  IF a = <<>> THEN b
  ELSE IF b = <<>> THEN a
  ELSE IF a[Len(a)].ch = b[1].ch
       THEN SubSeq(a, 1, Len(a) - 1) \o <<[ch |-> b[1].ch, n |-> a[Len(a)].n + b[1].n]>> \o Tail(b)
       ELSE a \o b

\* the string of the characters chars
RECURSIVE Str(_)
Str(chars) ==
  IF chars = <<>> THEN <<>>
  ELSE Concat(<<[ch |-> Head(chars), n |-> 1]>>, Str(Tail(chars)))

\* n copies of the character ch
Rep(ch, n) == IF n <= 0 THEN <<>> ELSE <<[ch |-> ch, n |-> n]>>

\* s.length
RECURSIVE StrLen(_)
StrLen(s) == IF s = <<>> THEN 0 ELSE s[1].n + StrLen(Tail(s))

\* the string of n characters that starts with prefix and goes on with ch
Text(prefix, ch, n) == Concat(Str(prefix), Rep(ch, n - Len(prefix)))

\* Slice with the cut made one character late
RECURSIVE SliceLate(_, _)
SliceLate(s, n) ==
  IF s = <<>> \/ n < 0 THEN <<>>
  ELSE IF s[1].n > n THEN <<[ch |-> s[1].ch, n |-> n + 1]>>
  ELSE <<s[1]>> \o SliceLate(Tail(s), n - s[1].n)

\* String.prototype.slice(0, n), n >= 0: the first n characters, or all of s
RECURSIVE Slice(_, _)
Slice(s, n) ==
  IF s = <<>> \/ n <= 0 THEN <<>>
  ELSE IF s[1].n >= n THEN <<[ch |-> s[1].ch, n |-> n]>>
  ELSE <<s[1]>> \o Slice(Tail(s), n - s[1].n)

\* s?.slice(0, n)
OptSlice(s, n) == IF s = Undefined THEN Undefined ELSE Slice(s, n)

\* o.k for an object o: undefined when o has no own key k
Get(o, k) == IF k \in DOMAIN o THEN o[k] ELSE Undefined

\* { ...a, ...b }: the keys of both, b's values winning
Spread(a, b) == b @@ a

\* the characters of s, one by one
RECURSIVE Expand(_)
Expand(s) == IF s = <<>> THEN <<>> ELSE [i \in 1..s[1].n |-> s[1].ch] \o Expand(Tail(s))

\* p is a prefix of s, read off the runs
IsPrefix(p, s) ==
  \/ p = <<>>
  \/ /\ Len(p) <= Len(s)
     /\ \A i \in 1..(Len(p) - 1) : p[i] = s[i]
     /\ p[Len(p)].ch = s[Len(p)].ch
     /\ p[Len(p)].n <= s[Len(p)].n

----------------------------------------------------------------------------
\* types.ts

LogLevel == {"trace", "debug", "info", "warn", "error", "fatal"}

MessageLimit == 255
StackLimit == 32768
SystemLimit == 255
UserLimit == 80

LOG_OBJECT == "Log__c"

LOG_FIELDS == <<"Id", "Level__c", "Message__c", "Stack__c", "System__c", "User__c", "CreatedDate">>

toSfLog(log) ==
  [Level__c |-> log["level"],
   Message__c |-> Slice(log["message"], MessageLimit),
   Stack__c |-> OptSlice(Get(log, "stack"), StackLimit),
   System__c |-> OptSlice(Get(log, "system"), SystemLimit),
   User__c |-> OptSlice(Get(log, "user"), UserLimit)]

fromSfLog(sfLog) ==
  [id |-> sfLog.Id,
   level |-> sfLog.Level__c,
   message |-> sfLog.Message__c,
   stack |-> sfLog.Stack__c,
   system |-> sfLog.System__c,
   user |-> sfLog.User__c,
   timestamp |-> sfLog.CreatedDate]

\* the row the backend keeps for an inserted record
Row(sf, id, created) ==
  [Id |-> id, Level__c |-> sf.Level__c, Message__c |-> sf.Message__c,
   Stack__c |-> sf.Stack__c, System__c |-> sf.System__c, User__c |-> sf.User__c,
   CreatedDate |-> created]

----------------------------------------------------------------------------
\* The mapper pipeline: a BaseLog goes through toSfLog, the backend gives the
\* record an id and a creation time, and fromSfLog maps the row back.

Short == 3
Over == 2
NIds == 2
MaxClock == 2

LongPrefix == <<"L", "O", "N", "G", "-">>

\* lengths below, at and above a field's limit
Lens(limit) == {Short, limit, limit + Over}

Ids == 1..NIds

MapperInputs ==
  { ("level" :> l) @@ ("message" :> m) @@ st @@ sy @@ us :
      l \in LogLevel,
      m \in {Text(LongPrefix, "A", n) : n \in Lens(MessageLimit)},
      st \in {<<>>} \cup {("stack" :> Text(<<"a", "t", " ">>, "s", n)) : n \in Lens(StackLimit)},
      sy \in {<<>>} \cup {("system" :> Text(<<"h">>, "y", n)) : n \in {Short, SystemLimit + Over}},
      us \in {<<>>} \cup {("user" :> Text(<<"r">>, "u", n)) : n \in {Short, UserLimit + Over}} }

\* setup() has not returned yet
NoOk ==
  [valid |-> FALSE, deployed |-> FALSE,
   backend |-> [objExists |-> FALSE, objFields |-> {}, permSet |-> FALSE, assigned |-> 0]]

NoLoggerCalls ==
  /\ logger = <<>> /\ pc = <<>> /\ call = <<>> /\ local = <<>> /\ inflight = <<>> /\ attempts = <<>>
  /\ result = <<>> /\ todo = <<>> /\ store = <<>> /\ clock = 0 /\ console = 0

NoSetup ==
  /\ spc = "off" /\ objExists = FALSE /\ objFields = {} /\ permSet = FALSE
  /\ assigned = 0 /\ run = <<>> /\ nruns = 0 /\ nenv = 0 /\ okBackend = NoOk

NoMapper == mPc = "off" /\ mIn = <<>> /\ mSf = <<>> /\ mRow = <<>> /\ mOut = <<>>

InitMapper ==
  /\ mPc = "in" /\ mIn \in MapperInputs /\ mSf = <<>> /\ mRow = <<>> /\ mOut = <<>>
  /\ NoLoggerCalls /\ NoSetup

MapToSf ==
  /\ mPc = "in"
  /\ mSf' = toSfLog(mIn)
  /\ mPc' = "sf"
  /\ UNCHANGED <<mIn, mRow, mOut, loggerVars, setupVars>>

BackendKeeps ==
  /\ mPc = "sf"
  /\ \E id \in Ids, created \in 1..MaxClock : mRow' = Row(mSf, id, created)
  /\ mPc' = "row"
  /\ UNCHANGED <<mIn, mSf, mOut, loggerVars, setupVars>>

MapFromSf ==
  /\ mPc = "row"
  /\ mOut' = fromSfLog(mRow)
  /\ mPc' = "out"
  /\ UNCHANGED <<mIn, mSf, mRow, loggerVars, setupVars>>

NextMapper == MapToSf \/ BackendKeeps \/ MapFromSf

SpecMapper == InitMapper /\ [][NextMapper]_vars

\* the prefix of s cut at limit, stated without the slice
CutAt(out, s, limit) ==
  IF s = Undefined THEN out = Undefined
  ELSE /\ out # Undefined
       /\ StrLen(out) = Min(StrLen(s), limit)
       /\ IsPrefix(out, s)

\* C4: fromSfLog(toSfLog(r) plus the backend's id and creation time) has r's
\* level, each of message, stack, system and user is r's field cut to its
\* prefix of 255, 32768, 255 and 80 characters (absent when absent in r), id
\* and timestamp are the backend's, and toSfLog's result is within the limits.
RoundTripIsPrefixCut ==
  /\ mPc \in {"sf", "row", "out"} =>
       /\ StrLen(mSf.Message__c) <= MessageLimit
       /\ mSf.Stack__c # Undefined => StrLen(mSf.Stack__c) <= StackLimit
       /\ mSf.System__c # Undefined => StrLen(mSf.System__c) <= SystemLimit
       /\ mSf.User__c # Undefined => StrLen(mSf.User__c) <= UserLimit
  /\ mPc = "out" =>
       /\ mOut.level = mIn["level"]
       /\ CutAt(mOut.message, mIn["message"], MessageLimit)
       /\ CutAt(mOut.stack, Get(mIn, "stack"), StackLimit)
       /\ CutAt(mOut.system, Get(mIn, "system"), SystemLimit)
       /\ CutAt(mOut.user, Get(mIn, "user"), UserLimit)
       /\ mOut.id = mRow.Id /\ mOut.timestamp = mRow.CreatedDate

\* a record with every field over its limit has made the round trip
RoundTripCutWitness ==
  /\ mPc = "out"
  /\ StrLen(mIn["message"]) > MessageLimit /\ StrLen(mOut.message) = MessageLimit
  /\ "stack" \in DOMAIN mIn /\ StrLen(mIn["stack"]) > StackLimit
  /\ "system" \in DOMAIN mIn /\ StrLen(mIn["system"]) > SystemLimit
  /\ "user" \in DOMAIN mIn /\ StrLen(mIn["user"]) > UserLimit

----------------------------------------------------------------------------
\* sf.ts and setup.ts: the backend provisioner, and the org it talks to.
\*
\* The client awaits one remote call at a time; spc names the call awaited.
\* run.calls lists the remote calls the current run has issued and run.steps
\* the protocol steps they belong to.

MaxRuns == 2
MaxEnv == 1

CustomFields == {"Level__c", "Message__c", "Stack__c", "System__c", "User__c"}
StandardFields == {"Id", "CreatedDate"}
RequiredFields == {LOG_FIELDS[i] : i \in 1..Len(LOG_FIELDS)}

Backend == [objExists |-> objExists, objFields |-> objFields, permSet |-> permSet, assigned |-> assigned]

\* what describe() answers for Log__c in the org's current state
Describe ==
  IF objExists THEN [errorCode |-> "none", fields |-> StandardFields \cup objFields]
  ELSE [errorCode |-> "NOT_FOUND", fields |-> {}]

\* verifyObject with the catch clause rethrowing every error
verifyObjectRethrows(d, requiredFields) ==
  IF d.errorCode # "none" THEN "throw"
  ELSE IF requiredFields \ d.fields # {} THEN "false" ELSE "true"

\* verifyObject, given what describe() answered or threw
verifyObject(d, requiredFields) ==
  IF d.errorCode = "NOT_FOUND" THEN "false"
  ELSE IF d.errorCode # "none" THEN "throw"
  ELSE IF requiredFields \ d.fields # {} THEN "false" ELSE "true"

verifyLog(d) == verifyObject(d, RequiredFields)

\* setupLog without the guard of the first verifyLog
AlwaysDeploy(v) == "deploy"

\* setupLog: what follows the first verifyLog
AfterFirstVerify(v) == IF v = "true" THEN "return" ELSE "deploy"

\* setupLog: what follows the second verifyLog
AfterSecondVerify(v) == IF v = "true" THEN "return" ELSE "throw"

\* assignPermissionSet with the check of the existing assignment left out
NeverAssigned(records) == FALSE

\* assignPermissionSet: existingAssignment.records.length > 0
AlreadyAssigned(records) == records > 0

\* the metadata bundled in force/: Log__c with its fields, permission set Log
BundleFields == CustomFields

Idle == spc \in {"idle", "returned", "raised"}

\* The bookkeeping of a run: first and second are what the two verifyLog
\* calls returned and firstCode, secondCode the error code describe() threw;
\* afterOk says the run started in the org as the last setup() that returned
\* left it, afterDeploy that that setup() had deployed, priorCreates counts the
\* assignments created by earlier runs, disturbed that someone else changed
\* the org during the run.
NewRun(op, firstCall, firstStep, priorCreates) ==
  [op |-> op, calls |-> <<firstCall>>, steps |-> <<firstStep>>,
   first |-> "none", firstCode |-> "-", second |-> "none", secondCode |-> "-",
   ret |-> "none", err |-> "none",
   afterOk |-> okBackend.valid /\ okBackend.backend = Backend,
   afterDeploy |-> okBackend.valid /\ okBackend.deployed,
   priorCreates |-> priorCreates,
   disturbed |-> FALSE, start |-> Backend]

Created(r) == IF r.ret = "true" THEN 1 ELSE 0

Issue(r, callName, step) ==
  [r EXCEPT !.calls = Append(@, callName),
            !.steps = IF @[Len(@)] = step /\ step = "grant" THEN @ ELSE Append(@, step)]

InitSetup ==
  /\ spc = "idle"
  /\ objExists \in BOOLEAN
  /\ objFields \in IF objExists
                   THEN {CustomFields} \cup {CustomFields \ {f} : f \in CustomFields}
                   ELSE {{}}
  /\ permSet \in BOOLEAN
  /\ assigned \in IF permSet THEN {0, 1} ELSE {0}
  /\ okBackend = NoOk
  /\ run = NewRun("none", "none", "none", 0)
  /\ nruns = 0 /\ nenv = 0
  /\ NoMapper /\ NoLoggerCalls

\* logger.setup() -> setupLog: the first verifyLog issues describe()
StartSetup ==
  /\ Idle /\ nruns < MaxRuns
  /\ spc' = "verify1"
  /\ run' = NewRun("setup", "describe", "verify", run.priorCreates + Created(run))
  /\ nruns' = nruns + 1
  /\ UNCHANGED <<objExists, objFields, permSet, assigned, nenv, okBackend, mapperVars, loggerVars>>

\* assignPermissionSet called on its own: it first asks for the identity
StartAssign ==
  /\ Idle /\ nruns < MaxRuns
  /\ spc' = "identity"
  /\ run' = NewRun("assign", "identity", "grant", run.priorCreates + Created(run))
  /\ nruns' = nruns + 1
  /\ UNCHANGED <<objExists, objFields, permSet, assigned, nenv, okBackend, mapperVars, loggerVars>>

Returns(r) ==
  /\ spc' = "returned"
  /\ run' = r
  /\ okBackend' = IF r.op = "setup"
                  THEN [valid |-> TRUE, backend |-> Backend, deployed |-> \E i \in 1..Len(r.calls) : r.calls[i] = "deploy"]
                  ELSE okBackend

Raises(r, e) ==
  /\ spc' = "raised"
  /\ run' = [r EXCEPT !.err = e]
  /\ UNCHANGED okBackend

\* describe() answers, or throws NOT_FOUND, for the first verifyLog
FirstVerify ==
  /\ spc = "verify1"
  /\ LET v == verifyLog(Describe)
         r == [run EXCEPT !.first = v, !.firstCode = Describe.errorCode]
     IN CASE v = "throw" -> Raises(r, "describe")
          [] AfterFirstVerify(v) = "return" -> Returns(r)
          [] OTHER -> /\ spc' = "deploy"
                      /\ run' = Issue(r, "deploy", "deploy")
                      /\ UNCHANGED okBackend
  /\ UNCHANGED <<objExists, objFields, permSet, assigned, nruns, nenv, mapperVars, loggerVars>>

\* the deployment of force/ succeeds; assignPermissionSetForLog starts
DeployOk ==
  /\ spc = "deploy"
  /\ objExists' = TRUE
  /\ objFields' = objFields \cup BundleFields
  /\ permSet' = TRUE
  /\ spc' = "identity"
  /\ run' = Issue(run, "identity", "grant")
  /\ UNCHANGED <<assigned, nruns, nenv, okBackend, mapperVars, loggerVars>>

\* the deployment reports result.response.success = false
DeployFails ==
  /\ spc = "deploy"
  /\ Raises(run, "Deploy failed")
  /\ UNCHANGED <<objExists, objFields, permSet, assigned, nruns, nenv, mapperVars, loggerVars>>

\* conn.identity() answers
IdentityOk ==
  /\ spc = "identity"
  /\ spc' = "qPermSet"
  /\ run' = Issue(run, "queryPermissionSet", "grant")
  /\ UNCHANGED <<objExists, objFields, permSet, assigned, nruns, nenv, okBackend, mapperVars, loggerVars>>

\* the query for the permission set by name answers
PermSetAnswer ==
  /\ spc = "qPermSet"
  /\ IF ~permSet
     THEN Raises(run, "Permission set not found")
     ELSE /\ spc' = "qAssign"
          /\ run' = Issue(run, "queryAssignment", "grant")
          /\ UNCHANGED okBackend
  /\ UNCHANGED <<objExists, objFields, permSet, assigned, nruns, nenv, mapperVars, loggerVars>>

\* assignPermissionSet is over with value ret: its caller goes on
Granted(r, ret) ==
  IF r.op = "setup"
  THEN /\ spc' = "verify2"
       /\ run' = Issue([r EXCEPT !.ret = ret], "describe", "verify")
       /\ UNCHANGED okBackend
  ELSE Returns([r EXCEPT !.ret = ret])

\* the query for an existing assignment answers
AssignmentAnswer ==
  /\ spc = "qAssign"
  /\ IF AlreadyAssigned(assigned)
     THEN Granted(run, "false")
     ELSE /\ spc' = "create"
          /\ run' = Issue(run, "create", "grant")
          /\ UNCHANGED okBackend
  /\ UNCHANGED <<objExists, objFields, permSet, assigned, nruns, nenv, mapperVars, loggerVars>>

\* the create of the PermissionSetAssignment answers success
CreateOk ==
  /\ spc = "create"
  /\ assigned' = assigned + 1
  /\ Granted(run, "true")
  /\ UNCHANGED <<objExists, objFields, permSet, nruns, nenv, mapperVars, loggerVars>>

\* the create answers success = false
CreateReportsFailure ==
  /\ spc = "create"
  /\ Raises(run, "Failed to assign permission set")
  /\ UNCHANGED <<objExists, objFields, permSet, assigned, nruns, nenv, mapperVars, loggerVars>>

\* describe() answers, or throws NOT_FOUND, for the second verifyLog
SecondVerify ==
  /\ spc = "verify2"
  /\ LET v == verifyLog(Describe)
         r == [run EXCEPT !.second = v, !.secondCode = Describe.errorCode]
     IN CASE v = "throw" -> Raises(r, "describe")
          [] AfterSecondVerify(v) = "return" -> Returns(r)
          [] OTHER -> Raises(r, "Log object setup failed")
  /\ UNCHANGED <<objExists, objFields, permSet, assigned, nruns, nenv, mapperVars, loggerVars>>

\* the awaited remote call is rejected (for describe: with an error code other
\* than NOT_FOUND); every caller lets the error through
Rejected ==
  /\ spc \in {"verify1", "verify2", "deploy", "identity", "qPermSet", "qAssign", "create"}
  /\ LET d == [errorCode |-> "OTHER", fields |-> {}]
         r == CASE spc = "verify1" -> [run EXCEPT !.first = verifyLog(d), !.firstCode = "OTHER"]
                [] spc = "verify2" -> [run EXCEPT !.second = verifyLog(d), !.secondCode = "OTHER"]
                [] OTHER -> run
     IN IF spc \in {"verify1", "verify2"} /\ verifyLog(d) # "throw"
        THEN FALSE
        ELSE Raises(r, "rejected")
  /\ UNCHANGED <<objExists, objFields, permSet, assigned, nruns, nenv, mapperVars, loggerVars>>

\* someone else removes a field of Log__c from the org
EnvDropField ==
  /\ nenv < MaxEnv /\ objExists
  /\ \E f \in objFields : objFields' = objFields \ {f}
  /\ nenv' = nenv + 1
  /\ run' = [run EXCEPT !.disturbed = TRUE]
  /\ UNCHANGED <<spc, objExists, permSet, assigned, nruns, okBackend, mapperVars, loggerVars>>

\* someone else deletes Log__c from the org
EnvDeleteObject ==
  /\ nenv < MaxEnv /\ objExists
  /\ objExists' = FALSE /\ objFields' = {}
  /\ nenv' = nenv + 1
  /\ run' = [run EXCEPT !.disturbed = TRUE]
  /\ UNCHANGED <<spc, permSet, assigned, nruns, okBackend, mapperVars, loggerVars>>

NextSetup ==
  \/ StartSetup \/ StartAssign
  \/ FirstVerify \/ DeployOk \/ DeployFails
  \/ IdentityOk \/ PermSetAnswer \/ AssignmentAnswer \/ CreateOk \/ CreateReportsFailure
  \/ SecondVerify \/ Rejected
  \/ EnvDropField \/ EnvDeleteObject

SpecSetup == InitSetup /\ [][NextSetup]_vars

Has(calls, c) == \E i \in 1..Len(calls) : calls[i] = c

Count(calls, c) == Cardinality({i \in 1..Len(calls) : calls[i] = c})

Complete(b) == b.objExists /\ CustomFields \subseteq b.objFields

FullRun == <<"verify", "deploy", "grant", "verify">>

\* C1: a setup() that starts in the org as a setup() that returned left it
\* issues the describe of Log__c and nothing else: no deploy, no create of an
\* assignment, and the org stays as it was.
SetupIsIdempotent ==
  (run.op = "setup" /\ run.afterOk /\ ~run.disturbed) =>
     /\ run.calls = <<"describe">>
     /\ Backend = run.start
     /\ spc \in {"verify1", "returned", "raised"}

\* a setup() that deployed and assigned has returned, and so has the next one
SetupIsIdempotentWitness ==
  /\ run.op = "setup" /\ run.afterOk /\ run.afterDeploy /\ ~run.disturbed
  /\ run.priorCreates = 1
  /\ spc = "returned"

\* C2: whenever setup() returns, the identity holds an assignment of the
\* permission set Log and Log__c exists with every required field.
SetupGrantsAccess ==
  (run.op = "setup" /\ spc = "returned" /\ ~run.disturbed) =>
     /\ Complete(Backend)
     /\ assigned >= 1

\* C8: the steps of a setup() are a prefix of verify, deploy, grant, verify.
\* A first verify that is true ends the run with nothing else issued; NOT_FOUND
\* or a missing field makes it false and the deploy follows; another describe
\* failure is let through with nothing else issued; a failed deploy ends the
\* run before the grant, a failed grant before the second verify, and a second
\* verify that is false raises 'Log object setup failed' after one deploy.
SetupStepOrder ==
  run.op = "setup" =>
     /\ Len(run.steps) <= Len(FullRun)
     /\ \A i \in 1..Len(run.steps) : run.steps[i] = FullRun[i]
     /\ run.first = "true" => spc = "returned" /\ run.calls = <<"describe">>
     /\ run.firstCode = "NOT_FOUND" => run.first = "false"
     /\ (run.firstCode = "none" /\ ~run.disturbed) =>
           (run.first = "false" <=> ~(CustomFields \subseteq run.start.objFields))
     /\ run.firstCode = "OTHER" =>
           run.first = "throw" /\ spc = "raised" /\ run.calls = <<"describe">>
     /\ run.first = "false" => Len(run.steps) >= 2 /\ run.err # "describe"
     /\ run.secondCode = "NOT_FOUND" => run.second = "false"
     /\ spc = "returned" =>
           \/ run.first = "true"
           \/ run.first = "false" /\ run.second = "true" /\ run.steps = FullRun
     /\ (spc = "raised" /\ run.err = "Deploy failed") =>
           run.steps = <<"verify", "deploy">> /\ ~Has(run.calls, "identity")
     /\ (spc = "raised" /\ run.err \in {"Permission set not found", "Failed to assign permission set"}) =>
           run.steps = <<"verify", "deploy", "grant">>
     /\ run.secondCode = "OTHER" =>
           run.second = "throw" /\ spc = "raised" /\ run.steps = FullRun
     /\ run.second = "false" =>
           /\ spc = "raised" /\ run.err = "Log object setup failed"
           /\ run.steps = FullRun
           /\ Count(run.calls, "deploy") = 1 /\ Count(run.calls, "describe") = 2

\* the second verify was false and the run was given up
SetupStepOrderWitness ==
  /\ run.op = "setup" /\ spc = "raised" /\ run.err = "Log object setup failed"
  /\ run.steps = FullRun /\ run.ret = "true"

\* C9: a create of an assignment is issued only when the permission set
\* exists and the identity holds no assignment; an identity that holds one gets
\* false and no create; a missing permission set raises with no create; a
\* create that reports failure raises; so the identity never holds more than
\* one assignment.
AssignIsCheckThenAct ==
  /\ assigned <= 1
  /\ Has(run.calls, "create") => permSet /\ run.start.assigned = 0
  /\ Count(run.calls, "create") <= 1
  /\ run.ret = "false" => ~Has(run.calls, "create") /\ assigned = 1 /\ run.start.assigned = 1
  /\ run.ret = "true" => Has(run.calls, "create") /\ assigned = 1
  /\ run.err = "Permission set not found" => ~Has(run.calls, "create") /\ ~permSet
  /\ run.err = "Failed to assign permission set" =>
        spc = "raised" /\ Has(run.calls, "create") /\ assigned = run.start.assigned

\* a call that found the assignment an earlier call created
AssignIsCheckThenActWitness ==
  /\ run.op = "assign" /\ spc = "returned" /\ run.ret = "false"
  /\ run.priorCreates = 1 /\ assigned = 1

----------------------------------------------------------------------------
\* logger.ts: the Logger facade, its callers, and the Log__c table.
\*
\* A caller is an async call chain on the one Logger. JavaScript runs a call
\* without interruption up to its await, so a call is one step up to the
\* request it hands to the connection, and one more step when the answer
\* comes. The loop of error() is stepped one iteration at a time; nothing else
\* runs while a caller is inside it.

MaxWalk == 4
MaxCalls == 1
MaxStored == 3
MaxLimit == 2
NCallers == 2

CauseSep == Str(<<" ", "|", " ", "C", "a", "u", "s", "e", ":", " ">>)
CausedBy == Str(<<"\n", "C", "a", "u", "s", "e", "d", " ", "b", "y", ":", " ">>)
Marker == <<"C", "a", "u", "s", "e", "d", " ", "b", "y", ":">>
NonErrorPrefix == Str(<<"N", "o", "n", " ", "e", "r", "r", "o", "r", " ", "t", "h", "r", "o", "w", "n", ":", " ">>)

NoCause == [kind |-> "none", id |-> "-", json |-> <<>>]
ErrorRef(id) == [kind |-> "Error", id |-> id, json |-> <<>>]
Value(json) == [kind |-> "value", json |-> json, id |-> "-"]
\* a value JSON.stringify throws on: a BigInt, an object that refers to itself
Unserializable == [kind |-> "unserializable", id |-> "-", json |-> <<>>]

\* The Error objects callers throw: message, stack and cause of each.
Errors ==
  [Root |-> [message |-> Str(<<"R", "o", "o", "t">>), stack |-> Str(<<"R", "@", "1">>), cause |-> NoCause],
   Mid |-> [message |-> Str(<<"M", "i", "d">>), stack |-> Str(<<"M", "@", "2">>), cause |-> ErrorRef("Root")],
   Top |-> [message |-> Str(<<"T", "o", "p">>), stack |-> Str(<<"T", "@", "3">>), cause |-> ErrorRef("Mid")],
   Long |-> [message |-> Text(<<"L">>, "x", MessageLimit - Short), stack |-> Str(<<"L", "@", "4">>), cause |-> NoCause],
   TopLong |-> [message |-> Str(<<"T", "o", "p">>), stack |-> Str(<<"T", "@", "3">>), cause |-> ErrorRef("Long")],
   Deep |-> [message |-> Str(<<"D", "e", "e", "p">>), stack |-> Text(<<"D", "@">>, "f", StackLimit - Short), cause |-> ErrorRef("Root")],
   Wrapped |-> [message |-> Str(<<"W", "r", "a", "p">>), stack |-> Str(<<"W", "@", "5">>), cause |-> Value(Str(<<"\"", "w", "h", "y", "\"">>))],
   Self |-> [message |-> Str(<<"S", "e", "l", "f">>), stack |-> Str(<<"S", "@", "6">>), cause |-> ErrorRef("Self")],
   Ping |-> [message |-> Str(<<"P", "i", "n", "g">>), stack |-> Str(<<"P", "@", "7">>), cause |-> ErrorRef("Pong")],
   Pong |-> [message |-> Str(<<"P", "o", "n", "g">>), stack |-> Str(<<"Q", "@", "8">>), cause |-> ErrorRef("Ping")]]

ErrorIds == DOMAIN Errors

\* thrown instanceof Error
IsError(v) == v.kind = "Error"

Callers == DOMAIN pc

\* no caller is inside the loop of error(): the event loop is free
EventLoopFree == \A d \in Callers : pc[d] # "walk"

NoSf == [Level__c |-> "-", Message__c |-> <<>>, Stack__c |-> Undefined, System__c |-> Undefined, User__c |-> Undefined]
NoSoql == [select |-> <<>>, from |-> "-", orderBy |-> "-", limit |-> <<>>]
NoRequest == [op |-> "none", sf |-> NoSf, soql |-> NoSoql]
NoLocal == [message |-> <<>>, stack |-> Undefined, cause |-> NoCause, iters |-> 0, log |-> <<>>]
NoResult == [status |-> "none", records |-> <<>>]
NoCall == [method |-> "none", message |-> <<>>, thrown |-> NoCause, log |-> <<>>, limit |-> <<>>]

\* constructor: system: options.system ?? hostname(), user: options.user ?? userInfo().username
NewLogger(options, echo) ==
  [echo |-> echo,
   defaults |-> ("system" :> (IF "system" \in DOMAIN options THEN options["system"] ELSE Str(<<"h", "o", "s", "t">>)))
             @@ ("user" :> (IF "user" \in DOMAIN options THEN options["user"] ELSE Str(<<"m", "e">>)))]

\* trace / debug / info / warn with the caller's record spread first
LevelCallLevelWins(level, message, log) ==
  Spread(log, ("level" :> level) @@ ("message" :> message))

\* trace / debug / info / warn: { level, message, ...log }
LevelCall(level, message, log) ==
  Spread(("level" :> level) @@ ("message" :> message), log)

\* error: { level: 'error', message, stack, ...log }
ErrorCall(message, stack, log) ==
  Spread(("level" :> "error") @@ ("message" :> message) @@ ("stack" :> stack), log)

\* fatal: { level: 'fatal', ...log }
FatalLog(log) == Spread(("level" :> "fatal"), log)

\* log: { ...this.defaults, ...log }
LogToInsert(lg, log) == Spread(lg.defaults, log)

\* the loop of error() with the stack left as it was
WalkBodyKeepsStack(l, e) ==
  [l EXCEPT !.message = Concat(@, Concat(CauseSep, e.message)),
            !.cause = e.cause,
            !.iters = @ + 1]

\* one iteration of the loop of error(), cause being the Error e
WalkBody(l, e) ==
  [l EXCEPT !.message = Concat(@, Concat(CauseSep, e.message)),
            !.stack = Concat(@, Concat(CausedBy, e.stack)),
            !.cause = e.cause,
            !.iters = @ + 1]

\* getLogs: the query; limit is <<>> without the option and <<n>> with it,
\* and the LIMIT clause is there when limit is truthy
GetLogsQuery(limit) ==
  [select |-> LOG_FIELDS, from |-> LOG_OBJECT, orderBy |-> "CreatedDate DESC",
   limit |-> IF limit # <<>> /\ limit[1] # 0 THEN limit ELSE <<>>]

\* this.log(log): echo, then hand toSfLog(logToInsert) to the connection
DoLog(c, log) ==
  /\ console' = console + (IF logger.echo THEN 1 ELSE 0)
  /\ inflight' = [inflight EXCEPT ![c] = [op |-> "insert", sf |-> toSfLog(LogToInsert(logger, log)), soql |-> NoSoql]]
  /\ attempts' = [attempts EXCEPT ![c] = 1]
  /\ pc' = [pc EXCEPT ![c] = "insert"]

\* error(thrown, log) up to its loop
StartError(c, thrown, log) ==
  IF IsError(thrown)
  THEN /\ local' = [local EXCEPT ![c] =
                      [message |-> Errors[thrown.id].message, stack |-> Errors[thrown.id].stack,
                       cause |-> Errors[thrown.id].cause, iters |-> 0, log |-> log]]
       /\ pc' = [pc EXCEPT ![c] = "walk"]
       /\ result' = [result EXCEPT ![c] = NoResult]
       /\ inflight' = [inflight EXCEPT ![c] = NoRequest]
       /\ attempts' = [attempts EXCEPT ![c] = 0]
       /\ UNCHANGED console
  ELSE IF thrown.kind = "unserializable"
  THEN /\ pc' = [pc EXCEPT ![c] = "raised"]
       /\ result' = [result EXCEPT ![c] = [status |-> "TypeError", records |-> <<>>]]
       /\ local' = [local EXCEPT ![c] = [NoLocal EXCEPT !.log = log]]
       /\ inflight' = [inflight EXCEPT ![c] = NoRequest]
       /\ attempts' = [attempts EXCEPT ![c] = 0]
       /\ UNCHANGED console
  ELSE /\ local' = [local EXCEPT ![c] =
                      [message |-> Concat(NonErrorPrefix, thrown.json), stack |-> Undefined,
                       cause |-> NoCause, iters |-> 0, log |-> log]]
       /\ result' = [result EXCEPT ![c] = NoResult]
       /\ DoLog(c, ErrorCall(Concat(NonErrorPrefix, thrown.json), Undefined, log))

\* a caller calls a method of the Logger; the call runs up to its first await
Begin(c, v) ==
  /\ pc[c] \in {"idle", "returned", "raised"} /\ todo[c] > 0 /\ EventLoopFree
  /\ todo' = [todo EXCEPT ![c] = @ - 1]
  /\ call' = [call EXCEPT ![c] = v]
  /\ CASE v.method = "log" ->
            /\ DoLog(c, v.log)
            /\ local' = [local EXCEPT ![c] = NoLocal]
            /\ result' = [result EXCEPT ![c] = NoResult]
       [] v.method \in {"trace", "debug", "info", "warn"} ->
            /\ DoLog(c, LevelCall(v.method, v.message, v.log))
            /\ local' = [local EXCEPT ![c] = NoLocal]
            /\ result' = [result EXCEPT ![c] = NoResult]
       [] v.method = "error" -> StartError(c, v.thrown, v.log)
       [] v.method = "fatal" -> StartError(c, v.thrown, FatalLog(v.log))
       [] v.method = "getLogs" ->
            /\ inflight' = [inflight EXCEPT ![c] = [op |-> "query", sf |-> NoSf, soql |-> GetLogsQuery(v.limit)]]
            /\ pc' = [pc EXCEPT ![c] = "query"]
            /\ local' = [local EXCEPT ![c] = NoLocal]
            /\ result' = [result EXCEPT ![c] = NoResult]
            /\ attempts' = [attempts EXCEPT ![c] = 0]
            /\ UNCHANGED console
  /\ UNCHANGED <<logger, store, clock, mapperVars, setupVars>>

\* the loop of error(): one more iteration, or the end of the loop and the
\* call of this.log
WalkStep(c) ==
  /\ pc[c] = "walk"
  /\ IF IsError(local[c].cause)
     THEN /\ local[c].iters < MaxWalk
          /\ local' = [local EXCEPT ![c] = WalkBody(@, Errors[local[c].cause.id])]
          /\ UNCHANGED <<pc, inflight, attempts, console>>
     ELSE /\ DoLog(c, ErrorCall(local[c].message, local[c].stack, local[c].log))
          /\ UNCHANGED local
  /\ UNCHANGED <<logger, call, result, todo, store, clock, mapperVars, setupVars>>

\* the backend takes the record: it gets an id and the creation time
InsertOk(c) ==
  /\ pc[c] = "insert" /\ EventLoopFree
  /\ \E tick \in {0, 1} :
       /\ clock' = clock + tick
       /\ store' = Append(store, Row(inflight[c].sf, Len(store) + 1, clock + tick))
  /\ result' = [result EXCEPT ![c] = [status |-> "ok", records |-> <<>>]]
  /\ pc' = [pc EXCEPT ![c] = "returned"]
  /\ UNCHANGED <<logger, call, local, inflight, attempts, todo, console, mapperVars, setupVars>>

\* the insert is rejected: the await in log() throws, and so does the call
InsertRejected(c) ==
  /\ pc[c] = "insert" /\ EventLoopFree
  /\ result' = [result EXCEPT ![c] = [status |-> "rejected", records |-> <<>>]]
  /\ pc' = [pc EXCEPT ![c] = "raised"]
  /\ UNCHANGED <<logger, call, local, inflight, attempts, todo, store, clock, console, mapperVars, setupVars>>

\* the insert answers success = false: log() does not look at the answer
InsertReportsFailure(c) ==
  /\ pc[c] = "insert" /\ EventLoopFree
  /\ result' = [result EXCEPT ![c] = [status |-> "reported", records |-> <<>>]]
  /\ pc' = [pc EXCEPT ![c] = "returned"]
  /\ UNCHANGED <<logger, call, local, inflight, attempts, todo, store, clock, console, mapperVars, setupVars>>

\* rows is the table in an order of descending CreatedDate
SortedDesc(rows) == \A i \in 1..(Len(rows) - 1) : rows[i].CreatedDate >= rows[i + 1].CreatedDate

\* the orders of the table's rows the backend may answer ORDER BY CreatedDate
\* DESC with: rows of equal creation time come in any order
Orderings(rows) ==
  { [i \in 1..Len(rows) |-> rows[p[i]]] :
      p \in { q \in [1..Len(rows) -> 1..Len(rows)] :
                /\ \A i, j \in 1..Len(rows) : i # j => q[i] # q[j]
                /\ SortedDesc([i \in 1..Len(rows) |-> rows[q[i]]]) } }

\* what the backend may answer to the query
QueryAnswers(soql, rows) ==
  { IF soql.limit = <<>> THEN o ELSE SubSeq(o, 1, Min(Len(o), soql.limit[1])) : o \in Orderings(rows) }

\* the query is answered: getLogs returns result.records.map(fromSfLog)
QueryAnswer(c) ==
  /\ pc[c] = "query" /\ EventLoopFree
  /\ \E rows \in QueryAnswers(inflight[c].soql, store) :
       result' = [result EXCEPT ![c] = [status |-> "ok", records |-> [i \in 1..Len(rows) |-> fromSfLog(rows[i])]]]
  /\ pc' = [pc EXCEPT ![c] = "returned"]
  /\ UNCHANGED <<logger, call, local, inflight, attempts, todo, store, clock, console, mapperVars, setupVars>>

\* the query is rejected: getLogs throws
QueryRejected(c) ==
  /\ pc[c] = "query" /\ EventLoopFree
  /\ result' = [result EXCEPT ![c] = [status |-> "rejected", records |-> <<>>]]
  /\ pc' = [pc EXCEPT ![c] = "raised"]
  /\ UNCHANGED <<logger, call, local, inflight, attempts, todo, store, clock, console, mapperVars, setupVars>>

\* What callers call the Logger with.

Plain == Str(<<"m">>)
TooLong == Text(LongPrefix, "A", MessageLimit + Over)

Partials ==
  { <<>>,
    ("level" :> "error"),
    ("system" :> Str(<<"s", "y", "s">>)) @@ ("user" :> Undefined),
    ("level" :> "debug") @@ ("message" :> Str(<<"o", "w", "n">>)) @@ ("stack" :> Str(<<"a", "t", " ", "x">>)) @@ ("user" :> Str(<<"u", "s", "r">>)) }

BaseLogs ==
  { ("level" :> l) @@ ("message" :> m) @@ x :
      l \in {"info", "fatal"}, m \in {Plain, TooLong},
      x \in {<<>>, ("stack" :> Str(<<"a", "t", " ", "x">>)) @@ ("system" :> Str(<<"s", "y", "s">>))} }

Thrown == {ErrorRef(e) : e \in ErrorIds} \cup {Value(Str(<<"{", "X", "}">>)), Value(Text(<<"{">>, "z", MessageLimit)), Unserializable}

Limits == {<<>>} \cup {<<n>> : n \in 0..MaxLimit}

LogOf(b) == [NoCall EXCEPT !.method = "log", !.log = b]
LevelOf(m, message, p) == [NoCall EXCEPT !.method = m, !.message = message, !.log = p]
ErrorOf(m, t, p) == [NoCall EXCEPT !.method = m, !.thrown = t, !.log = p]
GetLogsOf(l) == [NoCall EXCEPT !.method = "getLogs", !.limit = l]

\* every call, for one caller at a time
FacadeCalls ==
  {LogOf(b) : b \in BaseLogs}
  \cup {LevelOf(m, message, p) : m \in {"trace", "debug", "info", "warn"}, message \in {Plain, TooLong}, p \in Partials}
  \cup {ErrorOf(m, t, p) : m \in {"error", "fatal"}, t \in Thrown, p \in Partials}
  \cup {GetLogsOf(l) : l \in Limits}

\* a few calls, for callers that share the Logger
SharedCalls ==
  { LogOf(("level" :> "info") @@ ("message" :> Plain)),
    LevelOf("warn", TooLong, ("user" :> Str(<<"u", "s", "r">>))),
    ErrorOf("error", ErrorRef("Top"), <<>>),
    ErrorOf("fatal", Unserializable, <<>>),
    GetLogsOf(<<1>>) }

\* calls on a table that holds rows already
QueryCalls ==
  { LogOf(("level" :> "info") @@ ("message" :> Plain)),
    ErrorOf("error", ErrorRef("Mid"), <<>>) }
  \cup {GetLogsOf(l) : l \in Limits}

InitLogger(callers, quota) ==
  /\ logger \in {NewLogger(<<>>, FALSE), NewLogger(("system" :> Str(<<"S">>)) @@ ("user" :> Str(<<"U">>)), TRUE)}
  /\ pc = [c \in callers |-> "idle"]
  /\ call = [c \in callers |-> NoCall]
  /\ local = [c \in callers |-> NoLocal]
  /\ inflight = [c \in callers |-> NoRequest]
  /\ attempts = [c \in callers |-> 0]
  /\ result = [c \in callers |-> NoResult]
  /\ todo = [c \in callers |-> quota]
  /\ console = 0
  /\ NoMapper /\ NoSetup

\* callers that share the Logger, on an empty table
Init == InitLogger(1..NCallers, MaxCalls) /\ store = <<>> /\ clock = 0

Next ==
  \E c \in 1..NCallers :
    \/ \E v \in SharedCalls : Begin(c, v)
    \/ WalkStep(c)
    \/ InsertOk(c) \/ InsertRejected(c) \/ InsertReportsFailure(c)
    \/ QueryAnswer(c) \/ QueryRejected(c)

Spec == Init /\ [][Next]_vars

\* one caller and one call, of every kind, on an empty table
InitFacade == InitLogger({1}, 1) /\ store = <<>> /\ clock = 0

NextFacade ==
  \E c \in {1} :
    \/ \E v \in FacadeCalls : Begin(c, v)
    \/ WalkStep(c)
    \/ InsertOk(c) \/ InsertRejected(c) \/ InsertReportsFailure(c)
    \/ QueryAnswer(c) \/ QueryRejected(c)

SpecFacade == InitFacade /\ [][NextFacade]_vars

\* rows the table may hold: ids in insertion order, creation times that never
\* go back and may repeat
StoredRows(k) ==
  { [i \in 1..k |-> Row(toSfLog(("level" :> "info") @@ ("message" :> Str(<<"r">>))), i, t[i])] :
      t \in { u \in [1..k -> 1..MaxClock] : \A i \in 1..(k - 1) : u[i] <= u[i + 1] } }

\* one caller, on a table of up to MaxStored rows
InitQuery ==
  /\ InitLogger({1}, MaxCalls)
  /\ \E k \in 0..MaxStored : store \in StoredRows(k)
  /\ clock = MaxClock

NextQuery ==
  \E c \in {1} :
    \/ \E v \in QueryCalls : Begin(c, v)
    \/ WalkStep(c)
    \/ InsertOk(c) \/ InsertRejected(c) \/ InsertReportsFailure(c)
    \/ QueryAnswer(c) \/ QueryRejected(c)

SpecQuery == InitQuery /\ [][NextQuery]_vars

----------------------------------------------------------------------------
\* What the claims about the Logger speak of, said without the Logger's code.

\* the ids of the Errors on the cause chain that starts at cause, as far as
\* the chain consists of Errors; "#cycle" when it does not end
RECURSIVE Links(_, _)
Links(cause, fuel) ==
  IF ~IsError(cause) THEN <<>>
  ELSE IF fuel = 0 THEN <<"#cycle">>
  ELSE <<cause.id>> \o Links(Errors[cause.id].cause, fuel - 1)

Chain(thrown) ==
  IF IsError(thrown) THEN Links(Errors[thrown.id].cause, Cardinality(ErrorIds)) ELSE <<>>

Cyclic(thrown) == \E i \in 1..Len(Chain(thrown)) : Chain(thrown)[i] = "#cycle"

RECURSIVE Joined(_, _, _)
Joined(text, sep, parts) ==
  IF parts = <<>> THEN text ELSE Joined(Concat(text, Concat(sep, Head(parts))), sep, Tail(parts))

\* thrown.message followed by ' | Cause: <message>' for every link
FullMessage(thrown) ==
  Joined(Errors[thrown.id].message, CauseSep,
         [i \in 1..Len(Chain(thrown)) |-> Errors[Chain(thrown)[i]].message])

\* thrown.stack followed by '\nCaused by: <stack>' for every link
FullStack(thrown) ==
  Joined(Errors[thrown.id].stack, CausedBy,
         [i \in 1..Len(Chain(thrown)) |-> Errors[Chain(thrown)[i]].stack])

\* the character sequence t occurs in the character sequence s
Contains(s, t) == \E k \in 0..(Len(s) - Len(t)) : SubSeq(s, k + 1, k + Len(t)) = t

\* the number of places of the string s where the characters chars occur; no
\* two neighbours in chars are equal, so each place is one window of runs
Occurrences(s, chars) ==
  Cardinality({ i \in 1..(Len(s) - Len(chars) + 1) :
                  /\ \A j \in 1..Len(chars) : s[i + j - 1].ch = chars[j]
                  /\ \A j \in 2..(Len(chars) - 1) : s[i + j - 1].n = 1 })

\* what the called method fixes or computes, per field
MethodValues(c) ==
  CASE call[c].method \in {"trace", "debug", "info", "warn"} ->
         ("level" :> call[c].method) @@ ("message" :> call[c].message)
    [] call[c].method \in {"error", "fatal"} ->
         ("level" :> call[c].method) @@ ("message" :> local[c].message) @@ ("stack" :> local[c].stack)
    [] OTHER -> <<>>

\* the value of field f by the precedence caller > method > instance defaults
Expected(c, f) ==
  IF f \in DOMAIN call[c].log THEN call[c].log[f]
  ELSE IF f \in DOMAIN MethodValues(c) THEN MethodValues(c)[f]
  ELSE IF f \in DOMAIN logger.defaults THEN logger.defaults[f]
  ELSE Undefined

LogMethods == {"log", "trace", "debug", "info", "warn", "error", "fatal"}

\* C5: in the record handed to insert every field is the caller's when the
\* caller's record or partial record has it, else the called method's, else
\* the instance default (cut to the field's limit by toSfLog).
FieldPrecedence ==
  \A c \in Callers :
    (pc[c] = "insert" /\ call[c].method \in LogMethods) =>
       /\ inflight[c].sf.Level__c = Expected(c, "level")
       /\ CutAt(inflight[c].sf.Message__c, Expected(c, "message"), MessageLimit)
       /\ CutAt(inflight[c].sf.Stack__c, Expected(c, "stack"), StackLimit)
       /\ CutAt(inflight[c].sf.System__c, Expected(c, "system"), SystemLimit)
       /\ CutAt(inflight[c].sf.User__c, Expected(c, "user"), UserLimit)

\* warn(message, {level: 'error'}) hands over an error record with the
\* method's message and the instance's system and user
FieldPrecedenceWitness ==
  \E c \in Callers :
    /\ pc[c] = "insert" /\ call[c].method = "warn" /\ call[c].log = ("level" :> "error")
    /\ inflight[c].sf.Level__c = "error"
    /\ inflight[c].sf.Message__c = call[c].message
    /\ inflight[c].sf.System__c = logger.defaults["system"]
    /\ inflight[c].sf.User__c = logger.defaults["user"]

ErrorCallsReachInsert ==
  \A c \in Callers :
    call[c].method \in {"error", "fatal"} =>
       IF Cyclic(call[c].thrown)
       THEN pc[c] = "walk" /\ attempts[c] = 0
       ELSE /\ pc[c] \in {"returned", "raised"} => attempts[c] = 1
            /\ pc[c] \in {"insert", "returned", "raised"} =>
                 local[c].iters = Len(Chain(call[c].thrown))

\* the record the call of caller c builds, by the precedence of the fields
OwnRecord(c) ==
  [Level__c |-> Expected(c, "level"),
   Message__c |-> Slice(Expected(c, "message"), MessageLimit),
   Stack__c |-> OptSlice(Expected(c, "stack"), StackLimit),
   System__c |-> OptSlice(Expected(c, "system"), SystemLimit),
   User__c |-> OptSlice(Expected(c, "user"), UserLimit)]

\* C3: every log call issues exactly one insert, of the record it built, and
\* never a second one; a failed insert reaches the caller and leaves no row;
\* with callers sharing the Logger the table holds one row per call that
\* succeeded.
EveryCallInsertsOnce ==
  /\ \A c \in Callers :
       call[c].method \in LogMethods =>
          /\ attempts[c] <= 1
          /\ pc[c] \in {"returned", "raised"} => attempts[c] = 1
          /\ attempts[c] = 1 => inflight[c].sf = OwnRecord(c)
          /\ result[c].status \in {"rejected", "reported"} => pc[c] = "raised"
  /\ MaxCalls = 1 =>
       Len(store) = Cardinality({c \in Callers : call[c].method \in LogMethods /\ pc[c] = "returned"})

\* C7: getLogs({limit: n}) on a table of k rows returns min(n, k) records,
\* the most recently created, in descending creation time, and all k without
\* a limit; the query selects LOG_FIELDS from Log__c ordered by CreatedDate
\* DESC and has a LIMIT clause exactly when a limit is given.
GetLogsReturnsNewest ==
  \A c \in Callers :
    (call[c].method = "getLogs" /\ pc[c] \in {"query", "returned"}) =>
       /\ inflight[c].soql.select = LOG_FIELDS
       /\ inflight[c].soql.from = LOG_OBJECT
       /\ inflight[c].soql.orderBy = "CreatedDate DESC"
       /\ inflight[c].soql.limit = call[c].limit
       /\ pc[c] = "returned" =>
            LET recs == result[c].records
                got == {recs[i].id : i \in 1..Len(recs)}
            IN /\ Len(recs) = IF call[c].limit = <<>> THEN Len(store)
                              ELSE Min(call[c].limit[1], Len(store))
               /\ Cardinality(got) = Len(recs)
               /\ \A i \in 1..(Len(recs) - 1) : recs[i].timestamp >= recs[i + 1].timestamp
               /\ \A i \in 1..Len(recs) : \E j \in 1..Len(store) : recs[i] = fromSfLog(store[j])
               /\ \A i \in 1..Len(recs), j \in 1..Len(store) :
                    store[j].Id \notin got => recs[i].timestamp >= store[j].CreatedDate

====
